---- MODULE Spec2Model ----
(***************************************************************************)
(* Model of app/CPU_Analysis/data_analysis.py: the analysis functions that *)
(* run on an in-memory observation table (a pandas DataFrame).             *)
(*                                                                         *)
(* Every analysis function is a pure function of its arguments.  A         *)
(* behaviour of the model is: an input table is given (Init), one analysis *)
(* function is called on it, and detect_anomalies may then be called on    *)
(* the thresholds calculate_alertness_thresholds returned.                 *)
(*                                                                         *)
(* Numbers.  pandas/numpy work on floats; the model computes with exact    *)
(* values of the form (a + sqrt(b)) / d  (a, b, d integers, b >= 0, d > 0) *)
(* which is closed under everything the code computes (sums, quantile      *)
(* interpolation, mean + k*std), plus the float NaN.                       *)
(***************************************************************************)
EXTENDS Integers, Sequences, FiniteSets, TLC

VARIABLES df, method, called, raised, stats_dict, distribution_results,
          time_patterns, thresholds, anomalies, recommendations

vars == <<df, method, called, raised, stats_dict, distribution_results,
          time_patterns, thresholds, anomalies, recommendations>>

(***************************************************************************)
(* Bounds of the model                                                     *)
(***************************************************************************)
MaxRows == 4
MaxVal == 1
MaxStageRows == 2
MaxDate == 2
MaxNulls == 1
MaxSpike == 11
MaxRecHours == 4
MaxRecMean == 2

(***************************************************************************)
(* Float values: NaN, or the exact number (a + sqrt(b)) / d                *)
(***************************************************************************)
NaN == [k |-> "nan", a |-> 0, b |-> 0, d |-> 1]

RECURSIVE GCD(_, _)
GCD(x, y) == IF y = 0 THEN x ELSE GCD(y, x % y)

Abs(x) == IF x < 0 THEN -x ELSE x

\* (a + sqrt(b)) / d in lowest terms
Num(a, b, d) ==
    LET g0 == GCD(Abs(a), d)
        g == CHOOSE h \in 1..g0 :
                /\ g0 % h = 0 /\ b % (h * h) = 0
                /\ \A j \in (h + 1)..g0 : ~(g0 % j = 0 /\ b % (j * j) = 0)
    IN  [k |-> "num", a |-> a \div g, b |-> b \div (g * g), d |-> d \div g]

Int2R(i) == Num(i, 0, 1)

Ratio(n, d) == Num(n, 0, d)

IsNaN(x) == x.k = "nan"

\* x >= y on numbers (both not NaN)
GeNum(x, y) ==
    IF x.b = 0 /\ y.b = 0 THEN x.a * y.d >= y.a * x.d
    ELSE IF x.a = y.a /\ x.d = y.d THEN x.b >= y.b
    ELSE IF y.b = 0
    THEN LET c == y.a * x.d - x.a * y.d      \* sqrt(x.b) * y.d >= c
         IN  c <= 0 \/ x.b * y.d * y.d >= c * c
    ELSE IF x.b = 0
    THEN LET c == x.a * y.d - y.a * x.d      \* c >= sqrt(y.b) * x.d
         IN  c >= 0 /\ c * c >= y.b * x.d * x.d
    ELSE LET p == y.d * y.d * x.b
             q == x.d * x.d * y.b
             c == x.d * y.a - y.d * x.a
         IN  \* sqrt(p) >= c + sqrt(q)
             IF c = 0 THEN p >= q
             ELSE IF c > 0
             THEN LET e == p - c * c - q IN e >= 0 /\ e * e >= 4 * c * c * q
             ELSE LET e == q - p - c * c IN e <= 0 \/ e * e <= 4 * c * c * p

\* IEEE comparisons: any comparison with NaN is False
Ge(x, y) == ~IsNaN(x) /\ ~IsNaN(y) /\ GeNum(x, y)

Gt(x, y) == ~IsNaN(x) /\ ~IsNaN(y) /\ ~GeNum(y, x)

\* x == y on floats
SameNumberAs(x, y) == Ge(x, y) /\ Ge(y, x)

\* x + y for a rational y (b = 0); NaN propagates
AddRat(x, y) ==
    IF IsNaN(x) \/ IsNaN(y) THEN NaN
    ELSE Num(x.a * y.d + y.a * x.d, x.b * y.d * y.d, x.d * y.d)

\* (kn / kd) * x for kn, kd > 0; NaN propagates
Scale(kn, kd, x) ==
    IF IsNaN(x) THEN NaN ELSE Num(kn * x.a, kn * kn * x.b, kd * x.d)

\* x - y for rationals; NaN propagates
SubRat(x, y) ==
    IF IsNaN(x) \/ IsNaN(y) THEN NaN
    ELSE Num(x.a * y.d - y.a * x.d, 0, x.d * y.d)

(***************************************************************************)
(* The observation table                                                   *)
(***************************************************************************)
metrics == <<"CPU_Usage", "Memory_Usage", "Network_Usage", "Temperature">>

MetricSet == {metrics[i] : i \in 1..Len(metrics)}

\* len(df)
NRows(t) == Len(t.rows)

\* df[metric]: the column as a sequence of cells (NaN = null)
Column(t, m) == [i \in 1..NRows(t) |-> t.rows[i].v[m]]

\* Series.dropna(): the positions of the non-null cells
NonNull(col) == {i \in 1..Len(col) : ~IsNaN(col[i])}

\* Series.count() / len(data) after dropna
Count(col) == Cardinality(NonNull(col))

\* the integer values occurring in a column
ValuesOf(col) == {col[i].a : i \in NonNull(col)}

RECURSIVE SumOver(_, _)
SumOver(S, f) ==
    IF S = {} THEN 0
    ELSE LET x == CHOOSE y \in S : TRUE IN f[x] + SumOver(S \ {x}, f)

\* sum of the non-null cells, and of their squares, by value multiplicity
Total(col) ==
    SumOver(ValuesOf(col),
            [x \in ValuesOf(col) |->
                x * Cardinality({i \in NonNull(col) : col[i].a = x})])

TotalSq(col) ==
    SumOver(ValuesOf(col),
            [x \in ValuesOf(col) |->
                x * x * Cardinality({i \in NonNull(col) : col[i].a = x})])

\* the j-th smallest non-null cell (j in 1..Count(col)): sorted(data)[j-1]
Kth(col, j) ==
    CHOOSE x \in ValuesOf(col) :
        /\ Cardinality({i \in NonNull(col) : col[i].a <= x}) >= j
        /\ Cardinality({i \in NonNull(col) : col[i].a < x}) < j

\* Series.mean(): NaN on an empty series
Mean(col) ==
    IF Count(col) = 0 THEN NaN ELSE Ratio(Total(col), Count(col))

\* Series.std(): sample standard deviation (ddof = 1), NaN when n < 2
\*   sqrt((n*Q - S^2) / (n*(n-1))) = sqrt((n*Q - S^2) * n*(n-1)) / (n*(n-1))
Std(col) ==
    LET n == Count(col)
        V == n * TotalSq(col) - Total(col) * Total(col)
    IN  IF n < 2 THEN NaN ELSE Num(0, V * n * (n - 1), n * (n - 1))

\* Quantile taking the order statistic at or below position (n-1)*q/100
\* without interpolating
Quantile_Lower(col, q) ==
    LET n == Count(col)
        lo == ((n - 1) * q) \div 100
    IN  IF n = 0 THEN NaN ELSE Ratio(Kth(col, lo + 1) * 100, 100)

\* Series.quantile(q/100): linear interpolation between the order statistics
\* at position (n-1)*q/100; NaN on an empty series
Quantile(col, q) ==
    LET n == Count(col)
        lo == ((n - 1) * q) \div 100
        rem == ((n - 1) * q) % 100
    IN  IF n = 0 THEN NaN
        ELSE IF rem = 0 THEN Ratio(Kth(col, lo + 1) * 100, 100)
        ELSE Ratio(Kth(col, lo + 1) * 100
                     + (Kth(col, lo + 2) - Kth(col, lo + 1)) * rem, 100)

\* Series.min() / Series.max(): NaN on an empty series
Min(col) == IF Count(col) = 0 THEN NaN ELSE Int2R(Kth(col, 1))

Max(col) == IF Count(col) = 0 THEN NaN ELSE Int2R(Kth(col, Count(col)))

(***************************************************************************)
(* calculate_alertness_thresholds                                          *)
(***************************************************************************)
Entry(w, c, name) == [warning |-> w, critical |-> c, method |-> name]

\* ThresholdFor with the two percentiles exchanged
ThresholdFor_SwappedPercentiles(data, m) ==
    IF m = "percentile"
    THEN <<Entry(Quantile(data, 95), Quantile(data, 90), "percentile")>>
    ELSE IF m = "std"
    THEN <<Entry(AddRat(Scale(2, 1, Std(data)), Mean(data)),
                 AddRat(Scale(3, 1, Std(data)), Mean(data)),
                 "standard_deviation")>>
    ELSE IF m = "iqr"
    THEN <<Entry(AddRat(Quantile(data, 75),
                        Scale(3, 2, SubRat(Quantile(data, 75),
                                           Quantile(data, 25)))),
                 AddRat(Quantile(data, 75),
                        Scale(3, 1, SubRat(Quantile(data, 75),
                                           Quantile(data, 25)))),
                 "iqr")>>
    ELSE <<>>

\* ThresholdFor with the last elif turned into an else
ThresholdFor_ElseIqr(data, m) ==
    IF m = "percentile"
    THEN <<Entry(Quantile(data, 90), Quantile(data, 95), "percentile")>>
    ELSE IF m = "std"
    THEN <<Entry(AddRat(Scale(2, 1, Std(data)), Mean(data)),
                 AddRat(Scale(3, 1, Std(data)), Mean(data)),
                 "standard_deviation")>>
    ELSE <<Entry(AddRat(Quantile(data, 75),
                        Scale(3, 2, SubRat(Quantile(data, 75),
                                           Quantile(data, 25)))),
                 AddRat(Quantile(data, 75),
                        Scale(3, 1, SubRat(Quantile(data, 75),
                                           Quantile(data, 25)))),
                 "iqr")>>

\* the if / elif / elif chain on method for one metric: the entry stored in
\* thresholds[metric], as a sequence of zero or one entries
ThresholdFor(data, m) ==
    IF m = "percentile"
    THEN <<Entry(Quantile(data, 90), Quantile(data, 95), "percentile")>>
    ELSE IF m = "std"
    THEN LET mean_val == Mean(data)
             std_val == Std(data)
         IN  <<Entry(AddRat(Scale(2, 1, std_val), mean_val),
                     AddRat(Scale(3, 1, std_val), mean_val),
                     "standard_deviation")>>
    ELSE IF m = "iqr"
    THEN LET q1 == Quantile(data, 25)
             q3 == Quantile(data, 75)
             iqr == SubRat(q3, q1)
         IN  <<Entry(AddRat(q3, Scale(3, 2, iqr)),
                     AddRat(q3, Scale(3, 1, iqr)),
                     "iqr")>>
    ELSE <<>>

\* the loop over metrics: an entry for each metric that is a column of the
\* table and for which the method chain stored one
ThresholdsOf(t, m) ==
    LET hit == {x \in MetricSet \cap t.columns :
                    ThresholdFor(Column(t, x), m) # <<>>}
    IN  [x \in hit |-> ThresholdFor(Column(t, x), m)[1]]

(***************************************************************************)
(* detect_anomalies                                                        *)
(***************************************************************************)
\* df[df[metric] > threshold]: the positions of the selected rows
RowsAbove(t, x, threshold) ==
    {i \in 1..NRows(t) : Gt(Column(t, x)[i], threshold)}

\* len(rows) / len(df) * 100, for len(df) > 0
Percentage(count, total) == Scale(100, 1, Ratio(count, total))

\* AnomalyEntry with the two cutoffs exchanged
AnomalyEntry_SwappedCutoffs(t, x, threshold_values) ==
    LET warning_anomalies == RowsAbove(t, x, threshold_values.critical)
        critical_anomalies == RowsAbove(t, x, threshold_values.warning)
    IN  [warning_count |-> Cardinality(warning_anomalies),
         critical_count |-> Cardinality(critical_anomalies),
         warning_data |-> warning_anomalies,
         critical_data |-> critical_anomalies,
         warning_percentage |->
             Percentage(Cardinality(warning_anomalies), NRows(t)),
         critical_percentage |->
             Percentage(Cardinality(critical_anomalies), NRows(t))]

\* AnomalyEntry with the percentages taken over the non-null values of the
\* metric instead of the rows of the table
AnomalyEntry_NonNullTotal(t, x, threshold_values) ==
    LET warning_anomalies == RowsAbove(t, x, threshold_values.warning)
        critical_anomalies == RowsAbove(t, x, threshold_values.critical)
        total == Count(Column(t, x))
    IN  [warning_count |-> Cardinality(warning_anomalies),
         critical_count |-> Cardinality(critical_anomalies),
         warning_data |-> warning_anomalies,
         critical_data |-> critical_anomalies,
         warning_percentage |->
             IF total = 0 THEN NaN
             ELSE Percentage(Cardinality(warning_anomalies), total),
         critical_percentage |->
             IF total = 0 THEN NaN
             ELSE Percentage(Cardinality(critical_anomalies), total)]

AnomalyEntry(t, x, threshold_values) ==
    LET warning_anomalies == RowsAbove(t, x, threshold_values.warning)
        critical_anomalies == RowsAbove(t, x, threshold_values.critical)
    IN  [warning_count |-> Cardinality(warning_anomalies),
         critical_count |-> Cardinality(critical_anomalies),
         warning_data |-> warning_anomalies,
         critical_data |-> critical_anomalies,
         warning_percentage |->
             Percentage(Cardinality(warning_anomalies), NRows(t)),
         critical_percentage |->
             Percentage(Cardinality(critical_anomalies), NRows(t))]

\* the metrics the loop of detect_anomalies visits
Reported(t, th) == DOMAIN th \cap t.columns

\* int / int with len(df) = 0 raises ZeroDivisionError on the first metric
AnomaliesRaise(t, th) == Reported(t, th) # {} /\ NRows(t) = 0

AnomaliesOf(t, th) == [x \in Reported(t, th) |-> AnomalyEntry(t, x, th[x])]

(***************************************************************************)
(* calculate_descriptive_statistics                                        *)
(***************************************************************************)
StatsEntry(col) ==
    [mean |-> Mean(col), median |-> Quantile(col, 50), std |-> Std(col),
     min |-> Min(col), max |-> Max(col),
     q1 |-> Quantile(col, 25), q3 |-> Quantile(col, 75),
     count |-> Count(col)]

\* an entry for each known metric that is a column of the table
StatsOf(t) == [x \in MetricSet \cap t.columns |-> StatsEntry(Column(t, x))]

(***************************************************************************)
(* analyze_data_distribution                                               *)
(*                                                                         *)
(* scipy.stats.shapiro and scipy.stats.kstest are library calls: what they *)
(* return is an input of the model.  An outcome is a p-value, NaN, or      *)
(* Raised (the call raised ValueError).                                    *)
(***************************************************************************)
ShapiroMaxN == 5000

Alpha == Ratio(5, 100)

Raised == [k |-> "raise", a |-> 0, b |-> 0, d |-> 1]

PValues == {Ratio(1, 100), Alpha, Ratio(90, 100)}

\* stats.shapiro(data) on n observations: a p-value when n >= 3; fewer than
\* three observations give NaN (with a warning) or ValueError, depending on
\* the SciPy release
ShapiroOutcomes(n) == IF n < 3 THEN {NaN, Raised} ELSE PValues

\* stats.kstest(data, 'norm', args=(data.mean(), data.std())): a p-value
\* when the sample standard deviation is a positive number; NaN when it is
\* NaN or 0; an empty sample gives NaN or ValueError, depending on the SciPy
\* release
KsOutcomes(data) ==
    IF Count(data) = 0 THEN {NaN, Raised}
    ELSE IF Count(data) = 1 \/ Cardinality(ValuesOf(data)) = 1 THEN {NaN}
    ELSE PValues

\* lines 94-98: the outcome kept in shapiro_p
ShapiroP(n, shapiro) == IF n <= ShapiroMaxN THEN shapiro ELSE NaN

\* lines 107-115: the entry of one metric (skewness and kurtosis, which
\* nothing depends on, are left out)
DistributionEntry(n, shapiro, ks_p) ==
    LET shapiro_p == ShapiroP(n, shapiro)
    IN  [shapiro_p_value |-> shapiro_p,
         ks_p_value |-> ks_p,
         is_normal |-> IF ~IsNaN(shapiro_p) THEN Gt(shapiro_p, Alpha)
                       ELSE Gt(ks_p, Alpha)]

\* a library call raised while some metric was processed
DistributionRaises(t, shapiro, ks_p) ==
    \E x \in MetricSet \cap t.columns :
        \/ ShapiroP(Count(Column(t, x)), shapiro[x]) = Raised
        \/ ks_p[x] = Raised

DistributionOf(t, shapiro, ks_p) ==
    [x \in MetricSet \cap t.columns |->
        DistributionEntry(Count(Column(t, x)), shapiro[x], ks_p[x])]

(***************************************************************************)
(* analyze_time_patterns                                                   *)
(***************************************************************************)
HourOf(r) == r.t[2]

DateOf(r) == r.t[1]

\* numpy round to 2 decimals (half to even) of a number, NaN kept
Round2(x) ==
    IF IsNaN(x) THEN NaN
    ELSE IF x.b = 0
    THEN LET n == 200 * x.a + x.d
             q == n \div (2 * x.d)
         IN  IF n % (2 * x.d) = 0 /\ q % 2 = 1
             THEN Ratio(q - 1, 100) ELSE Ratio(q, 100)
    ELSE LET top == (100 * (Abs(x.a) + x.b + 1)) \div x.d + 1
             r == CHOOSE c \in (-top)..top :
                    /\ GeNum(Scale(200, 1, x), Int2R(2 * c - 1))
                    /\ ~GeNum(Scale(200, 1, x), Int2R(2 * c + 1))
         IN  Ratio(r, 100)

\* the value of the grouping column ('Hour' or 'Date') in a row
KeyOf(r, by) == IF by = "Hour" THEN HourOf(r) ELSE DateOf(r)

\* the rows of one group
Group(t, by, key) ==
    [t EXCEPT !.rows = SelectSeq(t.rows, LAMBDA r : KeyOf(r, by) = key)]

\* groupby(by)[metrics].agg(['mean', 'max', 'std']).round(2)
GroupStats(t, by) ==
    LET keys == {KeyOf(t.rows[i], by) : i \in 1..NRows(t)}
    IN  [index |-> keys,
         columns |-> MetricSet,
         agg |-> [key \in keys |-> [x \in MetricSet |->
                    LET col == Column(Group(t, by, key), x)
                    IN  [mean |-> Round2(Mean(col)),
                         max |-> Round2(Max(col)),
                         std |-> Round2(Std(col))]]]]

\* df['Date'].nunique()
NDates(t) == Cardinality({DateOf(t.rows[i]) : i \in 1..NRows(t)})

\* the exception analyze_time_patterns raises, or "none": the check for the
\* 'Time' column (line 143), then the selection of the four metric columns
\* from the groupby (line 156), which needs every one of them
TimePatternsRaise(t) ==
    IF t.tcol # "Time" THEN "ValueError"
    ELSE IF ~(MetricSet \subseteq t.columns) THEN "KeyError"
    ELSE "none"

TimePatternsOf(t) ==
    LET both == {"hourly", "daily"}
        keys == IF NDates(t) > 1 THEN both ELSE {"hourly"}
    IN  [g \in keys |-> IF g = "hourly" THEN GroupStats(t, "Hour")
                        ELSE GroupStats(t, "Date")]

(***************************************************************************)
(* generate_optimization_recommendations                                   *)
(***************************************************************************)
\* a message: the rule that appended it and the value it formats
Msg(rule, value) == [rule |-> rule, value |-> value]

\* the number of peak hours asked of nlargest
PeakCount == 3

\* NLargest preferring the last occurrence among equal means
RECURSIVE NLargest_LastOfEqual(_, _, _)
NLargest_LastOfEqual(hours, mean, k) ==
    LET cand == {h \in hours : ~IsNaN(mean[h])}
        best == CHOOSE h \in cand :
                    \A g \in cand :
                        \/ Gt(mean[h], mean[g])
                        \/ SameNumberAs(mean[h], mean[g]) /\ h >= g
    IN  IF k = 0 \/ cand = {} THEN <<>>
        ELSE <<best>> \o NLargest_LastOfEqual(hours \ {best}, mean, k - 1)

\* the k largest of the non-NaN means (keep = 'first') over the hours in
\* index order (ascending hour): the hours of the k highest means, highest
\* first, the first occurrence first among equal means
RECURSIVE NLargest(_, _, _)
NLargest(hours, mean, k) ==
    LET cand == {h \in hours : ~IsNaN(mean[h])}
        best == CHOOSE h \in cand :
                    \A g \in cand :
                        \/ Gt(mean[h], mean[g])
                        \/ SameNumberAs(mean[h], mean[g]) /\ h <= g
    IN  IF k = 0 \/ cand = {} THEN <<>>
        ELSE <<best>> \o NLargest(hours \ {best}, mean, k - 1)

\* CpuRecs with the elif of the moderate-usage rule turned into an if
CpuRecs_IfInsteadOfElif(stats, anom) ==
    IF "CPU_Usage" \notin DOMAIN stats THEN <<>>
    ELSE LET cpu_stats == stats["CPU_Usage"]
             critical_percentage ==
                 IF "CPU_Usage" \in DOMAIN anom
                 THEN anom["CPU_Usage"].critical_percentage ELSE Int2R(0)
         IN  (IF Gt(cpu_stats.mean, Int2R(75))
              THEN <<Msg("cpu_high", cpu_stats.mean)>> ELSE <<>>)
             \o (IF Gt(cpu_stats.mean, Int2R(60))
                 THEN <<Msg("cpu_moderate", cpu_stats.mean)>> ELSE <<>>)
             \o (IF Gt(critical_percentage, Int2R(5))
                 THEN <<Msg("cpu_spikes", critical_percentage)>> ELSE <<>>)

\* lines 266-285
CpuRecs(stats, anom) ==
    IF "CPU_Usage" \notin DOMAIN stats THEN <<>>
    ELSE LET cpu_stats == stats["CPU_Usage"]
             critical_percentage ==
                 IF "CPU_Usage" \in DOMAIN anom
                 THEN anom["CPU_Usage"].critical_percentage ELSE Int2R(0)
         IN  (IF Gt(cpu_stats.mean, Int2R(75))
              THEN <<Msg("cpu_high", cpu_stats.mean)>>
              ELSE IF Gt(cpu_stats.mean, Int2R(60))
              THEN <<Msg("cpu_moderate", cpu_stats.mean)>>
              ELSE <<>>)
             \o (IF Gt(critical_percentage, Int2R(5))
                 THEN <<Msg("cpu_spikes", critical_percentage)>> ELSE <<>>)

\* lines 288-302
MemRecs(stats) ==
    IF "Memory_Usage" \notin DOMAIN stats THEN <<>>
    ELSE LET mem_stats == stats["Memory_Usage"]
         IN  (IF Gt(mem_stats.max, Int2R(15))
              THEN <<Msg("memory_concern", mem_stats.max)>> ELSE <<>>)
             \o (IF Gt(mem_stats.std, Int2R(2))
                 THEN <<Msg("memory_variability", mem_stats.std)>> ELSE <<>>)

\* lines 305-318
NetRecs(stats) ==
    IF "Network_Usage" \notin DOMAIN stats THEN <<>>
    ELSE LET net_stats == stats["Network_Usage"]
         IN  (IF Ge(net_stats.max, Int2R(200))
              THEN <<Msg("network_saturation", net_stats.max)>> ELSE <<>>)
             \o (IF Gt(net_stats.mean, Int2R(150))
                 THEN <<Msg("network_high", net_stats.mean)>> ELSE <<>>)

\* the hours whose mean is NaN, in index order
NaNHours(hours, mean) ==
    LET nan == {h \in hours : IsNaN(mean[h])}
    IN  [i \in 1..Cardinality(nan) |->
            CHOOSE h \in nan : Cardinality({g \in nan : g < h}) = i - 1]

\* Series.nlargest(PeakCount).index.tolist(): the hours of the largest
\* non-NaN means; the hours of NaN means are appended up to PeakCount hours
\* by the pandas releases that keep them (nan_kept) and dropped by the others
PeakHours(hours, mean, nan_kept) ==
    LET top == NLargest(hours, mean, PeakCount)
        all == top \o NaNHours(hours, mean)
    IN  IF nan_kept
        THEN SubSeq(all, 1, IF Len(all) < PeakCount THEN Len(all)
                            ELSE PeakCount)
        ELSE top

\* lines 321-328
TimeRecs(patterns, nan_kept) ==
    IF "hourly" \notin DOMAIN patterns THEN <<>>
    ELSE LET hourly_data == patterns["hourly"]
         IN  IF "CPU_Usage" \notin hourly_data.columns THEN <<>>
             ELSE <<Msg("peak_hours",
                        PeakHours(hourly_data.index,
                                  [h \in hourly_data.index |->
                                      hourly_data.agg[h]["CPU_Usage"].mean],
                                  nan_kept))>>

\* lines 331-337
TempRecs(stats) ==
    IF "Temperature" \notin DOMAIN stats THEN <<>>
    ELSE LET temp_stats == stats["Temperature"]
         IN  IF Gt(temp_stats.max, Int2R(50))
             THEN <<Msg("temperature_alert", temp_stats.max)>> ELSE <<>>

RecommendationsOf(stats, anom, patterns, nan_kept) ==
    CpuRecs(stats, anom) \o MemRecs(stats) \o NetRecs(stats)
        \o TimeRecs(patterns, nan_kept) \o TempRecs(stats)

(***************************************************************************)
(* Input tables                                                            *)
(***************************************************************************)
Cells == {NaN} \cup {Int2R(x) : x \in 0..MaxVal}

\* a row whose metric cells all hold the cell c
Row(cols, t, c) == [t |-> t, v |-> [x \in cols |-> c]]

SeqsUpTo(S, n) == UNION {[1..k -> S] : k \in 0..n}

\* the sets of metric columns of the input tables: none, one, several, all
ColumnSets ==
    {{}, {"CPU_Usage"}, {"CPU_Usage", "Memory_Usage", "Network_Usage"},
     MetricSet}

\* up to MaxRows rows of any cells, one timestamp
SmallTables ==
    UNION {{[tcol |-> "Time", columns |-> cols, rows |-> r] :
                r \in SeqsUpTo({Row(cols, <<1, 0>>, c) : c \in Cells}, MaxRows)}
            : cols \in ColumnSets}

\* tables with one outlier: k rows of 0 followed by one row of 1
SpikeTables ==
    {[tcol |-> "Time", columns |-> cols,
      rows |-> [i \in 1..(k + 1) |->
                  Row(cols, <<1, 0>>, Int2R(IF i = k + 1 THEN 1 ELSE 0))]] :
        cols \in ColumnSets, k \in 1..MaxSpike}

\* the table whose only metric column is CPU_Usage with the five readings
\* 70, 80, 90, 95, 99
ScenarioValues == <<70, 80, 90, 95, 99>>

ScenarioTable ==
    [tcol |-> "Time", columns |-> {"CPU_Usage"},
     rows |-> [i \in 1..Len(ScenarioValues) |->
                 Row({"CPU_Usage"}, <<1, 0>>, Int2R(ScenarioValues[i]))]]

\* tables for the threshold and anomaly functions
Tables == SmallTables \cup SpikeTables \cup {ScenarioTable}

StageHours == {0, 1}

Timestamps == (1..MaxDate) \X StageHours

TimestampColumns == {"Time", "dteday", "none"}

\* tables for the stage functions: any timestamp column, up to MaxStageRows
\* rows with any timestamps
StageTables ==
    UNION {{[tcol |-> tc, columns |-> cols, rows |-> r] :
                tc \in TimestampColumns,
                r \in SeqsUpTo({Row(cols, ts, Int2R(1)) : ts \in Timestamps},
                               MaxStageRows)}
            : cols \in ColumnSets}

\* tables for the distribution analysis: row counts around the Shapiro-Wilk
\* limit, the first k cells null
DistRowCounts == (0..3) \cup ((ShapiroMaxN - 1)..(ShapiroMaxN + 1))

DistTables ==
    {[tcol |-> "Time", columns |-> cols,
      rows |-> [i \in 1..n |->
                  Row(cols, <<1, 0>>, IF i <= k THEN NaN ELSE Int2R(i % 2))]] :
        cols \in ColumnSets, n \in DistRowCounts, k \in 0..MaxNulls}

KnownMethods == {"percentile", "std", "iqr"}

MethodArgs == KnownMethods \cup {"zscore"}

NoResult == <<>>

Start ==
    /\ method = "none"
    /\ called = "none"
    /\ raised = "none"
    /\ stats_dict = NoResult
    /\ distribution_results = NoResult
    /\ time_patterns = NoResult
    /\ thresholds = NoResult
    /\ anomalies = NoResult
    /\ recommendations = NoResult

Init == df \in Tables /\ Start

InitStages == df \in StageTables /\ Start

InitDist == df \in DistTables /\ Start

\* inputs of generate_optimization_recommendations: values on both sides of
\* each cutoff of the rules
StatsRecord(mean, max, std) ==
    [mean |-> Int2R(mean), max |-> Int2R(max), std |-> Int2R(std)]

MetricStats(x) ==
    IF x = "CPU_Usage" THEN {StatsRecord(m, 100, 1) : m \in {60, 75, 76}}
    ELSE IF x = "Memory_Usage"
    THEN {StatsRecord(8, mx, sd) : mx \in {15, 16}, sd \in {2, 3}}
    ELSE IF x = "Network_Usage"
    THEN {StatsRecord(m, mx, 1) : m \in {150, 151}, mx \in {199, 200}}
    ELSE {StatsRecord(40, mx, 1) : mx \in {50, 51}}

StatsInputs ==
    UNION {{f \in [cols -> UNION {MetricStats(x) : x \in cols}] :
                \A x \in cols : f[x] \in MetricStats(x)}
            : cols \in SUBSET MetricSet}

AnomalyInputs ==
    {<<>>} \cup {[x \in {"CPU_Usage"} |-> [critical_percentage |-> Int2R(p)]]
                    : p \in {5, 6}}

\* an hourly grouping of n hour buckets with the given means
HourlyInput(cols, n, mean) ==
    [index |-> 0..(n - 1),
     columns |-> cols,
     agg |-> [h \in 0..(n - 1) |-> [x \in cols |->
                [mean |-> mean[h], max |-> mean[h],
                 std |-> IF IsNaN(mean[h]) THEN NaN ELSE Int2R(0)]]]]

\* the mean of an hour bucket: a number, or NaN when every reading of the
\* hour is null
RecMeans == {NaN} \cup {Int2R(m) : m \in 1..MaxRecMean}

HourlyInputs ==
    UNION {{[g \in {"hourly"} |-> HourlyInput(MetricSet, n, mean)] :
                mean \in [0..(n - 1) -> RecMeans]}
            : n \in 0..MaxRecHours}

\* no hourly grouping, an hourly grouping without CPU_Usage, one with it
FewPatterns ==
    {<<>>,
     [g \in {"hourly"} |->
         HourlyInput(MetricSet \ {"CPU_Usage"}, 1, [h \in {0} |-> Int2R(1)])],
     [g \in {"hourly"} |-> HourlyInput(MetricSet, 1, [h \in {0} |-> Int2R(1)])]}

\* no statistics, and statistics of all four metrics matching every rule
FewStats ==
    {<<>>,
     [x \in MetricSet |->
         IF x = "CPU_Usage" THEN StatsRecord(76, 100, 1)
         ELSE IF x = "Memory_Usage" THEN StatsRecord(8, 16, 3)
         ELSE IF x = "Network_Usage" THEN StatsRecord(151, 200, 1)
         ELSE StatsRecord(40, 51, 1)]}

NoTable == [tcol |-> "none", columns |-> {}, rows |-> <<>>]

InitRec ==
    /\ df = NoTable
    /\ method = "none"
    /\ called = "none"
    /\ raised = "none"
    /\ anomalies \in AnomalyInputs
    /\ \/ stats_dict \in StatsInputs /\ time_patterns \in FewPatterns
       \/ stats_dict \in FewStats /\ time_patterns \in HourlyInputs
    /\ distribution_results = NoResult
    /\ thresholds = NoResult
    /\ recommendations = NoResult

GenerateOptimizationRecommendations ==
    /\ called = "none"
    /\ called' = "generate_optimization_recommendations"
    /\ \E nan_kept \in BOOLEAN :
           recommendations' =
               RecommendationsOf(stats_dict, anomalies, time_patterns,
                                 nan_kept)
    /\ UNCHANGED <<df, method, raised, stats_dict, distribution_results,
                   time_patterns, thresholds, anomalies>>

CalculateDescriptiveStatistics ==
    /\ called = "none"
    /\ called' = "calculate_descriptive_statistics"
    /\ stats_dict' = StatsOf(df)
    /\ UNCHANGED <<df, method, raised, distribution_results, time_patterns,
                   thresholds, anomalies, recommendations>>

\* every metric column of an input table holds the same cells, so the
\* library returns the same outcomes for each of them
AnalyzeDataDistribution ==
    /\ called = "none"
    /\ called' = "analyze_data_distribution"
    /\ LET data == [i \in 1..NRows(df) |-> df.rows[i].v[CHOOSE x \in df.columns : TRUE]]
       IN  \E sh \in IF df.columns = {} THEN {NaN}
                      ELSE ShapiroOutcomes(Count(data)),
              ks \in IF df.columns = {} THEN {NaN} ELSE KsOutcomes(data) :
             LET shapiro == [x \in df.columns |-> sh]
                 ks_p == [x \in df.columns |-> ks]
             IN  IF DistributionRaises(df, shapiro, ks_p)
                 THEN /\ raised' = "ValueError"
                      /\ UNCHANGED distribution_results
                 ELSE /\ distribution_results' =
                             DistributionOf(df, shapiro, ks_p)
                      /\ UNCHANGED raised
    /\ UNCHANGED <<df, method, stats_dict, time_patterns, thresholds,
                   anomalies, recommendations>>

AnalyzeTimePatterns ==
    /\ called = "none"
    /\ called' = "analyze_time_patterns"
    /\ raised' = TimePatternsRaise(df)
    /\ IF TimePatternsRaise(df) = "none"
       THEN time_patterns' = TimePatternsOf(df)
       ELSE UNCHANGED time_patterns
    /\ UNCHANGED <<df, method, stats_dict, distribution_results, thresholds,
                   anomalies, recommendations>>

CalculateAlertnessThresholds ==
    /\ called = "none"
    /\ \E m \in MethodArgs :
        /\ method' = m
        /\ thresholds' = ThresholdsOf(df, m)
    /\ called' = "calculate_alertness_thresholds"
    /\ UNCHANGED <<df, raised, stats_dict, distribution_results,
                   time_patterns, anomalies, recommendations>>

DetectAnomalies ==
    /\ called = "calculate_alertness_thresholds"
    /\ raised = "none"
    /\ called' = "detect_anomalies"
    /\ IF AnomaliesRaise(df, thresholds)
       THEN raised' = "ZeroDivisionError" /\ UNCHANGED anomalies
       ELSE anomalies' = AnomaliesOf(df, thresholds) /\ UNCHANGED raised
    /\ UNCHANGED <<df, method, stats_dict, distribution_results,
                   time_patterns, thresholds, recommendations>>

\* the functions that take the observation table
Next ==
    \/ CalculateDescriptiveStatistics
    \/ AnalyzeDataDistribution
    \/ AnalyzeTimePatterns
    \/ CalculateAlertnessThresholds
    \/ DetectAnomalies

Spec == InitStages /\ [][Next]_vars

NextThresholds == CalculateAlertnessThresholds \/ DetectAnomalies

SpecThresholds == Init /\ [][NextThresholds]_vars

NextDist == AnalyzeDataDistribution

SpecDist == InitDist /\ [][NextDist]_vars

NextRec == GenerateOptimizationRecommendations

SpecRec == InitRec /\ [][NextRec]_vars

(***************************************************************************)
(* Threshold and anomaly claims                                            *)
(***************************************************************************)
ThresholdsReturned ==
    called \in {"calculate_alertness_thresholds", "detect_anomalies"}

AnomaliesReturned == called = "detect_anomalies" /\ raised = "none"

\* C1 as stated: for every method in {percentile, std, iqr} and every metric
\* column with at least one non-null value, the entry returned by
\* calculate_alertness_thresholds has critical >= warning.
C1_CriticalGeWarning_AnyNonNull ==
    (ThresholdsReturned /\ method \in KnownMethods) =>
        \A x \in MetricSet \cap df.columns :
            Count(Column(df, x)) >= 1 =>
                /\ x \in DOMAIN thresholds
                /\ Ge(thresholds[x].critical, thresholds[x].warning)

\* the number of non-null values a method needs for its thresholds to be
\* numbers: the sample standard deviation of a single value is NaN
MinSample(m) == IF m = "std" THEN 2 ELSE 1

\* C1 amended: critical >= warning for percentile and iqr on every metric
\* column with at least one non-null value, and for std on every metric
\* column with at least two non-null values.
C1_CriticalGeWarning ==
    (ThresholdsReturned /\ method \in KnownMethods) =>
        \A x \in MetricSet \cap df.columns :
            Count(Column(df, x)) >= MinSample(method) =>
                /\ x \in DOMAIN thresholds
                /\ Ge(thresholds[x].critical, thresholds[x].warning)

C1_Witness ==
    /\ called = "calculate_alertness_thresholds"
    /\ method = "std"
    /\ \E x \in DOMAIN thresholds :
        /\ Count(Column(df, x)) >= 2
        /\ Gt(thresholds[x].critical, thresholds[x].warning)

\* C2: with the thresholds derived from the same table, for every metric
\* reported every row of the critical-anomaly set (value > critical cutoff)
\* is in the warning-anomaly set (value > warning cutoff), and
\* critical_count <= warning_count.
C2_CriticalSubsetOfWarning ==
    (AnomaliesReturned /\ method \in KnownMethods) =>
        \A x \in DOMAIN anomalies :
            /\ anomalies[x].critical_data \subseteq anomalies[x].warning_data
            /\ anomalies[x].critical_count <= anomalies[x].warning_count
            /\ \A i \in 1..NRows(df) :
                  Gt(df.rows[i].v[x], thresholds[x].critical)
                      => i \in anomalies[x].warning_data

C2_Witness ==
    /\ AnomaliesReturned
    /\ method = "std"
    /\ \E x \in DOMAIN anomalies :
        /\ anomalies[x].critical_count >= 1
        /\ anomalies[x].critical_data \subseteq anomalies[x].warning_data

\* C3: on a non-empty table, for every metric reported, each percentage is
\* 100 * count / total_rows, total_rows counting the rows whose metric value
\* is null, and lies in [0, 100].
C3_Percentages ==
    (AnomaliesReturned /\ NRows(df) > 0) =>
        \A x \in DOMAIN anomalies :
            LET e == anomalies[x] IN
            /\ SameNumberAs(e.warning_percentage,
                          Ratio(100 * e.warning_count, NRows(df)))
            /\ SameNumberAs(e.critical_percentage,
                          Ratio(100 * e.critical_count, NRows(df)))
            /\ Ge(e.warning_percentage, Int2R(0))
            /\ Ge(Int2R(100), e.warning_percentage)
            /\ Ge(e.critical_percentage, Int2R(0))
            /\ Ge(Int2R(100), e.critical_percentage)

C3_Witness ==
    /\ AnomaliesReturned
    /\ \E x \in DOMAIN anomalies :
        /\ Count(Column(df, x)) < NRows(df)
        /\ anomalies[x].warning_count >= 1
        /\ anomalies[x].warning_count < Count(Column(df, x))

\* C4: on a table with zero rows, calculate_alertness_thresholds followed by
\* detect_anomalies does not raise, and the anomaly result is empty or has
\* zero counts and zero percentages for every metric.
C4_EmptyTableNoRaise ==
    (NRows(df) = 0 /\ called = "detect_anomalies") =>
        /\ raised = "none"
        /\ \A x \in DOMAIN anomalies :
            /\ anomalies[x].warning_count = 0
            /\ anomalies[x].critical_count = 0
            /\ SameNumberAs(anomalies[x].warning_percentage, Int2R(0))
            /\ SameNumberAs(anomalies[x].critical_percentage, Int2R(0))

\* C9: for a method outside {percentile, std, iqr} the threshold map has no
\* entry and nothing is raised, whatever the table, and detect_anomalies on
\* that map reports no metric.
C9_UnknownMethodNoEntries ==
    (ThresholdsReturned /\ method \notin KnownMethods) =>
        /\ DOMAIN thresholds = {}
        /\ raised = "none"
        /\ called = "detect_anomalies" => DOMAIN anomalies = {}

C9_Witness ==
    /\ called = "detect_anomalies"
    /\ method \notin KnownMethods
    /\ df.columns = MetricSet
    /\ NRows(df) > 0
    /\ DOMAIN anomalies = {}

(***************************************************************************)
(* Stage claims                                                            *)
(***************************************************************************)
Present == MetricSet \cap df.columns

\* C5: on a table lacking one or more of the four metric columns, each
\* analysis stage (descriptive statistics, distribution analysis,
\* time-pattern aggregation, threshold calculation, anomaly detection)
\* completes without error and its output has entries for exactly the
\* metrics that are present.  Each stage is taken on the tables it accepts
\* otherwise: a 'Time' column for the time patterns, at least one row for
\* the anomalies, library calls that return for the distribution.
C5_AbsentMetricsSkipped ==
    (Present # MetricSet) =>
        /\ called = "calculate_descriptive_statistics" =>
              DOMAIN stats_dict = Present
        /\ (called = "analyze_data_distribution" /\ raised = "none") =>
              DOMAIN distribution_results = Present
        /\ (called = "analyze_time_patterns" /\ df.tcol = "Time") =>
              /\ raised = "none"
              /\ "hourly" \in DOMAIN time_patterns
              /\ time_patterns["hourly"].columns = Present
        /\ (ThresholdsReturned /\ method \in KnownMethods) =>
              DOMAIN thresholds = Present
        /\ (called = "detect_anomalies" /\ method \in KnownMethods
              /\ NRows(df) > 0) =>
              raised = "none" /\ DOMAIN anomalies = Present

\* C6: analyze_time_patterns fails with a validation error exactly when the
\* table has no timestamp column; with a 'Time' or a 'dteday' column it does
\* not fail and its result contains the hourly grouping.  Stated on the
\* tables that hold all four metric columns.
C6_FailsIffNoTimestamp ==
    (called = "analyze_time_patterns" /\ Present = MetricSet) =>
        IF df.tcol = "none" THEN raised = "ValueError"
        ELSE raised = "none" /\ "hourly" \in DOMAIN time_patterns

\* C7: for every table with a timestamp column the result of
\* analyze_time_patterns contains the hourly grouping, and contains the
\* daily grouping if and only if the timestamps span more than one date.
C7_DailyIffSeveralDates ==
    (called = "analyze_time_patterns" /\ df.tcol # "none") =>
        /\ raised = "none"
        /\ "hourly" \in DOMAIN time_patterns
        /\ "daily" \in DOMAIN time_patterns <=> NDates(df) > 1

\* C8: for every present metric with n non-null values, n <= 5000 gives
\* is_normal = (Shapiro-Wilk p-value > 0.05), and n > 5000 gives Shapiro-Wilk
\* outputs marked not computed and is_normal = (KS p-value > 0.05).
C8_VerdictBySampleSize ==
    (called = "analyze_data_distribution" /\ raised = "none") =>
        \A x \in DOMAIN distribution_results :
            LET e == distribution_results[x] IN
            IF Count(Column(df, x)) <= ShapiroMaxN
            THEN e.is_normal = Gt(e.shapiro_p_value, Alpha)
            ELSE /\ IsNaN(e.shapiro_p_value)
                 /\ e.is_normal = Gt(e.ks_p_value, Alpha)

\* x is within half a unit of tenths/10
Approximately(x, tenths) ==
    /\ Ge(x, Ratio(tenths - 5, 10))
    /\ Ge(Ratio(tenths + 5, 10), x)

ScenarioPercentile ==
    /\ ThresholdsReturned
    /\ method = "percentile"
    /\ df = ScenarioTable

\* C11 as stated: on the table whose only metric column is CPU_Usage with
\* values [70, 80, 90, 95, 99], method percentile returns warning
\* approximately 94.0 and critical approximately 96.0.
C11_ScenarioThresholds_94_96 ==
    ScenarioPercentile =>
        /\ DOMAIN thresholds = {"CPU_Usage"}
        /\ Approximately(thresholds["CPU_Usage"].warning, 940)
        /\ Approximately(thresholds["CPU_Usage"].critical, 960)

\* C11 amended: on that table method percentile returns one entry, for
\* CPU_Usage, whose warning is the linearly interpolated 90th percentile
\* 95 + 0.6 * (99 - 95) = 97.4 and whose critical is the linearly
\* interpolated 95th percentile 95 + 0.8 * (99 - 95) = 98.2.
C11_ScenarioThresholds ==
    ScenarioPercentile =>
        /\ DOMAIN thresholds = {"CPU_Usage"}
        /\ SameNumberAs(thresholds["CPU_Usage"].warning, Ratio(974, 10))
        /\ SameNumberAs(thresholds["CPU_Usage"].critical, Ratio(982, 10))
        /\ thresholds["CPU_Usage"].method = "percentile"

C11_Witness ==
    /\ called = "calculate_alertness_thresholds"
    /\ method = "percentile"
    /\ df = ScenarioTable
    /\ "CPU_Usage" \in DOMAIN thresholds

(***************************************************************************)
(* Recommendation claims                                                   *)
(***************************************************************************)
RuleOrder ==
    <<"cpu_usage", "cpu_spikes", "memory_concern", "memory_variability",
      "network_saturation", "network_high", "peak_hours",
      "temperature_alert">>

\* the rule a message belongs to: the two CPU usage messages are one rule
RuleOf(msg) ==
    IF msg.rule \in {"cpu_high", "cpu_moderate"} THEN "cpu_usage"
    ELSE msg.rule

Has(x) == x \in DOMAIN stats_dict

\* the condition of each rule on the three input records
Matches(rule) ==
    IF rule = "cpu_usage"
    THEN Has("CPU_Usage") /\ Gt(stats_dict["CPU_Usage"].mean, Int2R(60))
    ELSE IF rule = "cpu_spikes"
    THEN /\ Has("CPU_Usage")
         /\ "CPU_Usage" \in DOMAIN anomalies
         /\ Gt(anomalies["CPU_Usage"].critical_percentage, Int2R(5))
    ELSE IF rule = "memory_concern"
    THEN Has("Memory_Usage") /\ Gt(stats_dict["Memory_Usage"].max, Int2R(15))
    ELSE IF rule = "memory_variability"
    THEN Has("Memory_Usage") /\ Gt(stats_dict["Memory_Usage"].std, Int2R(2))
    ELSE IF rule = "network_saturation"
    THEN Has("Network_Usage")
         /\ Ge(stats_dict["Network_Usage"].max, Int2R(200))
    ELSE IF rule = "network_high"
    THEN Has("Network_Usage")
         /\ Gt(stats_dict["Network_Usage"].mean, Int2R(150))
    ELSE IF rule = "peak_hours"
    THEN /\ "hourly" \in DOMAIN time_patterns
         /\ "CPU_Usage" \in time_patterns["hourly"].columns
    ELSE Has("Temperature") /\ Gt(stats_dict["Temperature"].max, Int2R(50))

\* C10: the returned list is exactly the messages of the matching rules in
\* the fixed order, one message per matching rule and none otherwise, and
\* the CPU high-usage and moderate-usage messages never both appear.
C10_RulesInFixedOrder ==
    called = "generate_optimization_recommendations" =>
        /\ [i \in 1..Len(recommendations) |-> RuleOf(recommendations[i])]
              = SelectSeq(RuleOrder, Matches)
        /\ ~(\E i, j \in 1..Len(recommendations) :
                /\ recommendations[i].rule = "cpu_high"
                /\ recommendations[j].rule = "cpu_moderate")
        /\ \A i \in 1..Len(recommendations) :
              recommendations[i].rule = "cpu_high"
                  <=> (RuleOf(recommendations[i]) = "cpu_usage"
                       /\ Gt(stats_dict["CPU_Usage"].mean, Int2R(75)))

C10_Witness ==
    /\ called = "generate_optimization_recommendations"
    /\ Len(recommendations) = Len(RuleOrder)
    /\ recommendations[1].rule = "cpu_high"

PeakInput ==
    /\ called = "generate_optimization_recommendations"
    /\ "hourly" \in DOMAIN time_patterns
    /\ "CPU_Usage" \in time_patterns["hourly"].columns

HourBuckets == time_patterns["hourly"].index

HourMean(h) == time_patterns["hourly"].agg[h]["CPU_Usage"].mean

NumericBuckets == {h \in HourBuckets : ~IsNaN(HourMean(h))}

\* the hour list of the peak-hours message
ListedPeakHours ==
    LET i == CHOOSE j \in 1..Len(recommendations) :
                 recommendations[j].rule = "peak_hours"
    IN  recommendations[i].value

AtMostPeakCount(n) == IF n < PeakCount THEN n ELSE PeakCount

\* hour p ranks before hour h: a higher mean, or an equal mean and an
\* earlier hour; a NaN mean ranks below every number
RanksBefore(p, h) ==
    \/ Gt(HourMean(p), HourMean(h))
    \/ SameNumberAs(HourMean(p), HourMean(h)) /\ p < h
    \/ ~IsNaN(HourMean(p)) /\ IsNaN(HourMean(h))
    \/ IsNaN(HourMean(p)) /\ IsNaN(HourMean(h)) /\ p < h

\* peak lists hour buckets in ranking order, and every bucket it leaves out
\* ranks after every bucket it lists
TopRanked(peak) ==
    /\ \A i \in 1..Len(peak) : peak[i] \in HourBuckets
    /\ \A i, j \in 1..Len(peak) : i < j => RanksBefore(peak[i], peak[j])
    /\ \A i \in 1..Len(peak) :
          \A h \in HourBuckets \ {peak[j] : j \in 1..Len(peak)} :
              RanksBefore(peak[i], h)

OnePeakMessage ==
    Cardinality({j \in 1..Len(recommendations) :
                    recommendations[j].rule = "peak_hours"}) = 1

====
